---- MODULE Spec2Model ----
(***************************************************************************)
(* A model of the dynamic endpoint registry of latinum_wallet_mcp.dynamic: *)
(* EndpointManager (endpoint_manager.py), the management HTTP handlers     *)
(* (http_server.py) and the MCP adapter (core.py); and of the argument     *)
(* tests of get_signed_transaction (solana_wallet_mcp.py).                 *)
(*                                                                         *)
(* Text is modelled as sequences of one-character strings, so that         *)
(* str.replace and the `in` test on strings are computed character by      *)
(* character.  A Python dict is a function; a dict that may be None is a   *)
(* record [none, map].  A Python call that may raise is an operator that   *)
(* returns a record with a `raised` field.                                 *)
(***************************************************************************)
EXTENDS Integers, Sequences, FiniteSets, TLC

VARIABLES
    endpoints,  \* EndpointManager.endpoints : name -> APIEndpoint
    tools,      \* EndpointManager.tools     : name -> FunctionTool
    calls,      \* call_tool coroutines suspended in their HTTP request
    last,       \* the response of the operation that completed last
    listing,    \* the value list_endpoints() returned to a caller that keeps it
    requests    \* the registration requests received: being read, or served

vars == <<endpoints, tools, calls, last, listing, requests>>

-----------------------------------------------------------------------------
(* Bounds of the model.                                                    *)

\* How many call_tool coroutines may be suspended at the same time.
MaxCalls == 1

\* How many registration requests are received in a run that follows them
\* one by one.
MaxRequests == 2

-----------------------------------------------------------------------------
(* Text.                                                                   *)

\* s[i..] starts with sub
StartsWith(s, sub) ==
    /\ Len(sub) <= Len(s)
    /\ SubSeq(s, 1, Len(sub)) = sub

\* Python `sub in s`
Contains(s, sub) ==
    \E i \in 1..(Len(s) - Len(sub) + 1) : SubSeq(s, i, i + Len(sub) - 1) = sub

\* Python s.replace(old, new) for a non-empty old: every non-overlapping
\* occurrence, found left to right, is replaced.
RECURSIVE Replace(_, _, _)
Replace(s, old, new) ==
    IF Len(s) < Len(old) THEN s
    ELSE IF StartsWith(s, old)
         THEN new \o Replace(SubSeq(s, Len(old) + 1, Len(s)), old, new)
         ELSE <<Head(s)>> \o Replace(Tail(s), old, new)

\* f"{{{param_name}}}"
Placeholder(param_name) == <<"{">> \o param_name \o <<"}">>

\* A call-time value: a str, or None.
NoneValue == [none |-> TRUE, s |-> <<>>]
StrValue(s) == [none |-> FALSE, s |-> s]

\* str(param_value)
Str(v) == IF v.none THEN <<"N", "o", "n", "e">> ELSE v.s

\* dict assignment d[k] = v
Put(d, k, v) == [x \in DOMAIN d \cup {k} |-> IF x = k THEN v ELSE d[x]]

\* del d[k]
Del(d, k) == [x \in DOMAIN d \ {k} |-> d[x]]

EmptyDict == [x \in {} |-> 0]

-----------------------------------------------------------------------------
(* models.py                                                               *)

\* HTTPMethod: the values of the enum.
HTTPMethod == {"GET", "POST", "PUT", "DELETE", "PATCH"}

\* APIParameter(**param): name, type and description are required keyword
\* arguments; required defaults to True and default to None.
APIParameter(param) ==
    IF {"name", "type", "description"} \cap param.missing # {}
    THEN [raised |-> TRUE, exc |-> "TypeError: missing required argument"]
    ELSE [raised |-> FALSE,
          value |-> [name        |-> param.name,
                     type        |-> param.type,
                     description |-> param.description,
                     required    |-> IF "required" \in param.missing
                                     THEN TRUE ELSE param.required,
                     default     |-> IF "default" \in param.missing
                                     THEN NoneValue ELSE param.default]]

\* The default of APIEndpoint.timeout and of config.get("timeout", 30.0).
DefaultTimeout == 30

\* Optional[Dict[str, str]]
NoneHeaders == [none |-> TRUE, map |-> EmptyDict]
Headers(map) == [none |-> FALSE, map |-> map]

-----------------------------------------------------------------------------
(* http_server.py: create_endpoint_from_config                             *)

create_endpoint_from_config(config) ==
    LET raw == IF "parameters" \in config.missing THEN <<>> ELSE config.parameters
        parsed == [i \in 1..Len(raw) |-> APIParameter(raw[i])]
    IN  IF \E i \in 1..Len(raw) : parsed[i].raised
        THEN [raised |-> TRUE, exc |-> "TypeError: missing required argument"]
        ELSE IF "name" \in config.missing
        THEN [raised |-> TRUE, exc |-> "KeyError: name"]
        ELSE IF "url" \in config.missing
        THEN [raised |-> TRUE, exc |-> "KeyError: url"]
        ELSE IF "method" \in config.missing
        THEN [raised |-> TRUE, exc |-> "KeyError: method"]
        ELSE IF config.method \notin HTTPMethod
        THEN [raised |-> TRUE, exc |-> "ValueError: not a valid HTTPMethod"]
        ELSE IF "description" \in config.missing
        THEN [raised |-> TRUE, exc |-> "KeyError: description"]
        ELSE [raised |-> FALSE,
              value |-> [name        |-> config.name,
                         url         |-> config.url,
                         method      |-> config.method,
                         description |-> config.description,
                         parameters  |-> [i \in 1..Len(raw) |-> parsed[i].value],
                         headers     |-> IF "headers" \in config.missing
                                         THEN NoneHeaders ELSE config.headers,
                         timeout     |-> IF "timeout" \in config.missing
                                         THEN DefaultTimeout ELSE config.timeout]]

-----------------------------------------------------------------------------
(* endpoint_manager.py: EndpointManager.add_endpoint                       *)

\* The characters a Python identifier of the model may hold.
IdentChars == {"a", "b", "c"}

\* inspect.Parameter(name, ...) accepts only a valid identifier.
IsIdentifier(n) == n # <<>> /\ \A i \in 1..Len(n) : n[i] \in IdentChars

\* create_endpoint_function annotating every parameter with str.
ParamTypeStr(t) == "str"

\* The annotation create_endpoint_function gives a parameter.
ParamType(t) ==
    CASE t = "string"  -> "str"
      [] t = "number"  -> "float"
      [] t = "boolean" -> "bool"
      [] OTHER         -> "Any"

\* One inspect.Parameter: a required parameter has no default, an optional one
\* has param.default (None when it is None).
SigParam(param) ==
    [name        |-> param.name,
     annotation  |-> ParamType(param.type),
     has_default |-> ~param.required,
     default     |-> IF param.required THEN NoneValue ELSE param.default]

\* inspect.Signature(sig_params) validates its parameters: no parameter
\* without a default after one with a default, no name twice.
SignatureError(sig_params) ==
    \E i \in 1..Len(sig_params) :
        \/ /\ ~sig_params[i].has_default
           /\ \E j \in 1..(i - 1) : sig_params[j].has_default
        \/ \E j \in 1..(i - 1) : sig_params[j].name = sig_params[i].name

\* create_endpoint_function(endpoint_name, params): the signature of the
\* function the tool wraps, or the ValueError of inspect.
create_endpoint_function(endpoint_name, params, doc) ==
    LET sig_params == [i \in 1..Len(params) |-> SigParam(params[i])]
    IN  IF \E i \in 1..Len(params) : ~IsIdentifier(params[i].name)
        THEN [raised |-> TRUE, exc |-> "ValueError: not a valid parameter name"]
        ELSE IF SignatureError(sig_params)
        THEN [raised |-> TRUE, exc |-> "ValueError: invalid signature"]
        ELSE [raised |-> FALSE,
              value |-> [name |-> endpoint_name, doc |-> doc, sig |-> sig_params]]

\* FunctionTool(endpoint_function): the tool wraps the function and takes its
\* name and its docstring.
FunctionTool(func) == [name |-> func.name, description |-> func.doc, func |-> func]

\* add_endpoint without its test for a name already present: the new
\* descriptor and tool replace the old ones.
add_endpoint_overwrite(eps, tls, endpoint) ==
    LET eps1 == Put(eps, endpoint.name, endpoint)
        f == create_endpoint_function(endpoint.name, endpoint.parameters,
                                      endpoint.description)
    IN  IF f.raised
        THEN [raised |-> TRUE, exc |-> f.exc, endpoints |-> eps1, tools |-> tls]
        ELSE [raised |-> FALSE, exc |-> "",
              endpoints |-> eps1,
              tools |-> Put(tls, endpoint.name, FunctionTool(f.value))]

\* add_endpoint(endpoint) on the mappings eps and tls: the descriptor is stored
\* (line 42) before the function and the tool are built (lines 95-98).
add_endpoint(eps, tls, endpoint) ==
    IF endpoint.name \in DOMAIN eps
    THEN [raised |-> TRUE, exc |-> "ValueError: already exists",
          endpoints |-> eps, tools |-> tls]
    ELSE LET eps1 == Put(eps, endpoint.name, endpoint)
             f == create_endpoint_function(endpoint.name, endpoint.parameters,
                                           endpoint.description)
         IN  IF f.raised
             THEN [raised |-> TRUE, exc |-> f.exc, endpoints |-> eps1, tools |-> tls]
             ELSE [raised |-> FALSE, exc |-> "",
                   endpoints |-> eps1,
                   tools |-> Put(tls, endpoint.name, FunctionTool(f.value))]

\* remove_endpoint that deletes the descriptor and forgets the tool.
remove_endpoint_keep_tool(eps, tls, endpoint_name) ==
    [removed   |-> endpoint_name \in DOMAIN eps,
     endpoints |-> IF endpoint_name \in DOMAIN eps THEN Del(eps, endpoint_name) ELSE eps,
     tools     |-> tls]

\* remove_endpoint that deletes the tool and leaves the descriptor.
remove_endpoint_keep_descriptor(eps, tls, endpoint_name) ==
    [removed   |-> endpoint_name \in DOMAIN tls,
     endpoints |-> eps,
     tools     |-> IF endpoint_name \in DOMAIN tls THEN Del(tls, endpoint_name) ELSE tls]

\* remove_endpoint(endpoint_name)
remove_endpoint(eps, tls, endpoint_name) ==
    [removed   |-> endpoint_name \in DOMAIN eps \/ endpoint_name \in DOMAIN tls,
     endpoints |-> IF endpoint_name \in DOMAIN eps THEN Del(eps, endpoint_name) ELSE eps,
     tools     |-> IF endpoint_name \in DOMAIN tls THEN Del(tls, endpoint_name) ELSE tls]

\* asdict(endpoint), with its method replaced by the enum's value (line 249).
asdict(endpoint) ==
    [name        |-> endpoint.name,
     url         |-> endpoint.url,
     method      |-> endpoint.method,
     description |-> endpoint.description,
     parameters  |-> endpoint.parameters,
     headers     |-> endpoint.headers,
     timeout     |-> endpoint.timeout]

\* list_endpoints(): asdict of every descriptor.
list_endpoints(eps) == {asdict(eps[n]) : n \in DOMAIN eps}

\* A listing made of shallow copies, dict(vars(endpoint)): the headers dict and
\* the parameters list of an entry are the objects of the descriptor.
SharedShallow(eps) == {"headers", "parameters"}

\* The parts of the value list_endpoints() returns that are objects of the
\* registry itself: the list is new (line 246), and asdict copies
\* dataclasses, lists and dicts recursively, so there is none.
SharedWithRegistry(eps) == {}

\* No listing is held.
NoListing == [held |-> FALSE, entries |-> EmptyDict, shared |-> {}]

\* The value list_endpoints() hands to its caller: the dict of every
\* descriptor, by name, and the parts that are shared with the registry.
ReturnedListing(eps) ==
    [held    |-> TRUE,
     entries |-> [n \in DOMAIN eps |-> asdict(eps[n])],
     shared  |-> SharedWithRegistry(eps)]

\* What the holder of a listing reads in it: a part that is shared with the
\* registry reads as the registry has it now, a copied part as it was copied
\* or as the holder has changed it since.
Seen(lst, eps) ==
    [n \in (IF "list" \in lst.shared THEN DOMAIN eps ELSE DOMAIN lst.entries) |->
        LET entry == IF n \in DOMAIN lst.entries THEN lst.entries[n] ELSE asdict(eps[n])
        IN  [entry EXCEPT
               !.headers = IF "headers" \in lst.shared /\ n \in DOMAIN eps
                           THEN eps[n].headers ELSE @,
               !.parameters = IF "parameters" \in lst.shared /\ n \in DOMAIN eps
                              THEN eps[n].parameters ELSE @]]

-----------------------------------------------------------------------------
(* endpoint_manager.py: the function a tool wraps, and _call_api_endpoint  *)

\* kwargs is the dict of the call-time arguments: parameter name -> value.
\* sig.bind(**kwargs) raises TypeError on a parameter without default that is
\* not given and on a keyword that is no parameter; bound.apply_defaults()
\* fills in the defaults.  bound.arguments is ordered as the signature is.
MissingArgs(sig, kwargs) ==
    SelectSeq([i \in 1..Len(sig) |-> sig[i].name],
              LAMBDA n : /\ n \notin DOMAIN kwargs
                         /\ \E i \in 1..Len(sig) :
                               sig[i].name = n /\ ~sig[i].has_default)

sig_bind(sig, kwargs) ==
    IF MissingArgs(sig, kwargs) # <<>>
    THEN [raised |-> TRUE, exc |-> "TypeError: missing a required argument"]
    ELSE IF \E k \in DOMAIN kwargs : \A i \in 1..Len(sig) : sig[i].name # k
    THEN [raised |-> TRUE, exc |-> "TypeError: got an unexpected keyword argument"]
    ELSE [raised |-> FALSE,
          value |-> [i \in 1..Len(sig) |->
                        [name  |-> sig[i].name,
                         value |-> IF sig[i].name \in DOMAIN kwargs
                                   THEN kwargs[sig[i].name]
                                   ELSE sig[i].default]]]

\* `param.name not in arguments`
HasArg(arguments, n) == \E i \in 1..Len(arguments) : arguments[i].name = n

\* Lines 120-125: the first required parameter that is not among the arguments.
MissingRequired(endpoint, arguments) ==
    SelectSeq(endpoint.parameters,
              LAMBDA p : p.required /\ ~HasArg(arguments, p.name))

\* Lines 127-129: every argument, in the order of the dict, replaces its
\* placeholder in the url built so far.
RECURSIVE BuildUrl(_, _)
BuildUrl(url, arguments) ==
    IF arguments = <<>> THEN url
    ELSE BuildUrl(Replace(url, Placeholder(Head(arguments).name),
                          Str(Head(arguments).value)),
                  Tail(arguments))

\* The copy of the arguments with nothing dropped.
RequestArgsAll(endpoint, arguments) == arguments

\* Lines 134-138: for GET and DELETE the arguments whose placeholder is in the
\* url of the descriptor are dropped from the copy.
RequestArgs(endpoint, arguments) ==
    IF endpoint.method \in {"GET", "DELETE"}
    THEN SelectSeq(arguments,
                   LAMBDA a : ~Contains(endpoint.url, Placeholder(a.name)))
    ELSE arguments

\* Line 131: `endpoint.headers or {}` is the dict of the descriptor itself
\* unless that is None or empty.
HeadersAliased(endpoint) ==
    ~endpoint.headers.none /\ DOMAIN endpoint.headers.map # {}

\* Line 146: headers.setdefault('Content-Type', 'application/json')
SetDefault(map, k, v) == IF k \in DOMAIN map THEN map ELSE Put(map, k, v)

\* The headers of the request.
RequestHeaders(endpoint) ==
    LET headers == IF HeadersAliased(endpoint) THEN endpoint.headers.map ELSE EmptyDict
    IN  IF endpoint.method \in {"POST", "PUT", "PATCH"}
        THEN SetDefault(headers, "Content-Type", "application/json")
        ELSE headers

\* The descriptor after the request was built: setdefault writes into the
\* dict of the descriptor when `headers` is that dict.
EndpointAfterCall(endpoint) ==
    IF HeadersAliased(endpoint) /\ endpoint.method \in {"POST", "PUT", "PATCH"}
    THEN [endpoint EXCEPT !.headers = Headers(RequestHeaders(endpoint))]
    ELSE endpoint

\* Lines 140-157: the request handed to aiohttp.
BuildRequest(endpoint, arguments) ==
    IF endpoint.method \in {"GET", "DELETE"}
    THEN [method  |-> endpoint.method,
          url     |-> BuildUrl(endpoint.url, arguments),
          params  |-> RequestArgs(endpoint, arguments),
          headers |-> RequestHeaders(endpoint),
          timeout |-> endpoint.timeout]
    ELSE [method  |-> endpoint.method,
          url     |-> BuildUrl(endpoint.url, arguments),
          json    |-> arguments,
          headers |-> RequestHeaders(endpoint),
          timeout |-> endpoint.timeout]

\* _call_api_endpoint up to its await: an envelope returned without a
\* request, or the request sent and the mapping as the call leaves it.
call_api_endpoint(eps, endpoint_name, arguments) ==
    IF endpoint_name \notin DOMAIN eps
    THEN [sent |-> FALSE, endpoints |-> eps,
          result |-> [success |-> FALSE,
                      message |-> [fmt |-> "Endpoint '%s' not found",
                                   endpoint |-> endpoint_name]]]
    ELSE LET endpoint == eps[endpoint_name]
             missing == MissingRequired(endpoint, arguments)
         IN  IF missing # <<>>
             THEN [sent |-> FALSE, endpoints |-> eps,
                   result |-> [success |-> FALSE,
                               message |-> [fmt |-> "Missing required parameter: %s",
                                            param |-> Head(missing).name]]]
             ELSE [sent |-> TRUE,
                   endpoints |-> Put(eps, endpoint_name, EndpointAfterCall(endpoint)),
                   endpoint |-> endpoint,
                   arguments |-> arguments,
                   request |-> BuildRequest(endpoint, arguments)]

\* The classes an except clause may name: those that inherit from
\* BaseException.  aiohttp.ClientTimeout is the class of the timeout settings
\* (line 132), not an exception.
ExceptionClasses == {"Exception", "TimeoutError", "ClientConnectorError"}

\* What the transport raises inside the try block.
Raised(failure) ==
    IF failure = "timeout" THEN "TimeoutError" ELSE "ClientConnectorError"

\* The except clauses of _call_api_endpoint (lines 159-165) when the request
\* raises.  The clauses are matched in order, and matching an exception against
\* a class that is no exception class raises TypeError: with
\* `except aiohttp.ClientTimeout` first, `except Exception` is never reached.
call_api_endpoint_except(call, failure) ==
    IF "aiohttp.ClientTimeout" \notin ExceptionClasses
    THEN [kind |-> "raised",
          exc  |-> "TypeError: catching classes that do not inherit from BaseException is not allowed"]
    ELSE IF Raised(failure) = "aiohttp.ClientTimeout"
    THEN [kind |-> "returned",
          value |-> [success |-> FALSE,
                     message |-> [fmt |-> "Request to %s timed out after %s seconds",
                                  url |-> call.request.url,
                                  timeout |-> call.endpoint.timeout]]]
    ELSE [kind |-> "returned",
          value |-> [success |-> FALSE,
                     message |-> [fmt |-> "Error calling API: %s",
                                  exc |-> Raised(failure)]]]

\* `'json' in response.content_type`
IsJsonType(content_type) ==
    content_type \in {"application/json", "application/problem+json", "text/json"}

\* The body texts that are JSON documents.
WellFormed(body) ==
    body \in {"{\"id\": 1}", "[]", "{}", "\"\"", "0", "false", "null"}

\* await response.json(): aiohttp refuses a content type that is not
\* application/json or application/...+json (ContentTypeError), answers None
\* for an empty body, and parses the body otherwise (JSONDecodeError on
\* a malformed one).
response_json(response) ==
    IF response.content_type \notin {"application/json", "application/problem+json"}
    THEN [raised |-> TRUE, exc |-> "ContentTypeError"]
    ELSE IF response.body = ""
    THEN [raised |-> FALSE, value |-> [json |-> "null"]]
    ELSE IF ~WellFormed(response.body)
    THEN [raised |-> TRUE, exc |-> "JSONDecodeError"]
    ELSE [raised |-> FALSE, value |-> [json |-> response.body]]

\* Lines 178-181: the decoded body, or the exception of the decoding.
response_data(response) ==
    IF IsJsonType(response.content_type)
    THEN response_json(response)
    ELSE [raised |-> FALSE, value |-> [text |-> response.body]]

\* _process_response with every status below 400 classified as a success.
process_response_3xx(response, endpoint_name) ==
    LET decoded == response_data(response)
    IN  IF decoded.raised
        THEN [success     |-> FALSE,
              status_code |-> response.status,
              message     |-> [fmt |-> "Error processing response: %s",
                               exc |-> decoded.exc]]
        ELSE IF response.status >= 200 /\ response.status < 400
             THEN [success     |-> TRUE,
                   status_code |-> response.status,
                   data        |-> decoded.value,
                   message     |-> [fmt |-> "Successfully called %s",
                                    endpoint |-> endpoint_name]]
             ELSE [success     |-> FALSE,
                   status_code |-> response.status,
                   data        |-> decoded.value,
                   message     |-> [fmt |-> "API call failed with status %s",
                                    status |-> response.status]]

\* _process_response whose envelope of a decoding failure has no status code.
process_response_no_status(response, endpoint_name) ==
    LET decoded == response_data(response)
    IN  IF decoded.raised
        THEN [success     |-> FALSE,
              message     |-> [fmt |-> "Error processing response: %s",
                               exc |-> decoded.exc]]
        ELSE IF response.status >= 200 /\ response.status < 300
             THEN [success     |-> TRUE,
                   status_code |-> response.status,
                   data        |-> decoded.value,
                   message     |-> [fmt |-> "Successfully called %s",
                                    endpoint |-> endpoint_name]]
             ELSE [success     |-> FALSE,
                   status_code |-> response.status,
                   data        |-> decoded.value,
                   message     |-> [fmt |-> "API call failed with status %s",
                                    status |-> response.status]]

\* _process_response(response, endpoint_name): an exception of the decoding
\* is caught by `except Exception` (lines 200-206).
process_response(response, endpoint_name) ==
    LET decoded == response_data(response)
    IN  IF decoded.raised
        THEN [success     |-> FALSE,
              status_code |-> response.status,
              message     |-> [fmt |-> "Error processing response: %s",
                               exc |-> decoded.exc]]
        ELSE IF response.status >= 200 /\ response.status < 300
             THEN [success     |-> TRUE,
                   status_code |-> response.status,
                   data        |-> decoded.value,
                   message     |-> [fmt |-> "Successfully called %s",
                                    endpoint |-> endpoint_name]]
             ELSE [success     |-> FALSE,
                   status_code |-> response.status,
                   data        |-> decoded.value,
                   message     |-> [fmt |-> "API call failed with status %s",
                                    status |-> response.status]]

-----------------------------------------------------------------------------
(* core.py: DynamicMCPServer.call_tool                                     *)

\* The truth value of a decoded body: None, False, 0 and an empty list, dict
\* or str are false.
Truthy(data) ==
    IF "json" \in DOMAIN data
    THEN data.json \notin {"[]", "{}", "\"\"", "0", "false", "null"}
    ELSE data.text # ""

\* Lines 66-76: the text of a result dict.
format_result(result) ==
    IF "success" \in DOMAIN result /\ result.success
    THEN IF "data" \in DOMAIN result /\ Truthy(result.data)
         THEN [fmt     |-> "%s\n\nResponse Data:\n%s",
               message |-> result.message,
               data    |-> result.data]
         ELSE IF "message" \in DOMAIN result THEN result.message
              ELSE [fmt |-> "Success - no data returned"]
    ELSE IF "message" \in DOMAIN result THEN result.message
         ELSE [fmt |-> "Unknown error occurred"]

\* call_tool without its except clause of lines 80-82: an exception of the
\* invoke leaves call_tool, and the protocol client gets no text of it.
format_invoke_unhandled(invoke) ==
    IF invoke.kind = "raised"
    THEN [fmt |-> "", unhandled |-> invoke.exc]
    ELSE format_result(invoke.value)

\* Lines 66-82: the text call_tool answers with, for what the tool's invoke did.
format_invoke(invoke) ==
    IF invoke.kind = "raised"
    THEN [fmt |-> "Error executing tool: %s", exc |-> invoke.exc]
    ELSE format_result(invoke.value)

\* tool.run_async(args=arguments, tool_context=None) up to the await of the
\* request: the ADK calls the wrapped function with the arguments as keywords
\* (endpoint_function, lines 83-86).  precheck is whether the installed ADK
\* itself answers a call that lacks a mandatory argument with an error dict.
run_async(eps, tool, kwargs, precheck) ==
    IF precheck /\ MissingArgs(tool.func.sig, kwargs) # <<>>
    THEN [sent |-> FALSE, endpoints |-> eps,
          invoke |-> [kind |-> "returned",
                      value |-> [error |-> "mandatory input parameters are not present"]]]
    ELSE LET bound == sig_bind(tool.func.sig, kwargs)
         IN  IF bound.raised
             THEN [sent |-> FALSE, endpoints |-> eps,
                   invoke |-> [kind |-> "raised", exc |-> bound.exc]]
             ELSE LET r == call_api_endpoint(eps, tool.func.name, bound.value)
                  IN  IF r.sent THEN r
                      ELSE [sent |-> FALSE, endpoints |-> eps,
                            invoke |-> [kind |-> "returned", value |-> r.result]]

\* call_tool without its test of lines 58-60: the lookup of line 62 raises
\* KeyError, which the except clause of line 80 renders.
call_tool_no_test(eps, tls, name, kwargs, precheck) ==
    IF name \notin DOMAIN tls
    THEN [sent |-> FALSE, endpoints |-> eps, found |-> FALSE,
          invoke |-> [kind |-> "none"],
          text |-> [fmt |-> "Error executing tool: %s", exc |-> "KeyError"]]
    ELSE LET r == run_async(eps, tls[name], kwargs, precheck)
         IN  IF r.sent
             THEN [sent |-> TRUE, endpoints |-> r.endpoints, found |-> TRUE,
                   endpoint |-> r.endpoint, arguments |-> r.arguments,
                   request |-> r.request]
             ELSE [sent |-> FALSE, endpoints |-> eps, found |-> TRUE,
                   invoke |-> r.invoke,
                   text |-> format_invoke(r.invoke)]

\* Lines 55-82 up to the await of the request.
call_tool(eps, tls, name, kwargs, precheck) ==
    IF name \notin DOMAIN tls
    THEN [sent |-> FALSE, endpoints |-> eps, found |-> FALSE,
          invoke |-> [kind |-> "none"],
          text |-> [fmt |-> "Tool '%s' not found", tool |-> name]]
    ELSE LET r == run_async(eps, tls[name], kwargs, precheck)
         IN  IF r.sent
             THEN [sent |-> TRUE, endpoints |-> r.endpoints, found |-> TRUE,
                   endpoint |-> r.endpoint, arguments |-> r.arguments,
                   request |-> r.request]
             ELSE [sent |-> FALSE, endpoints |-> eps, found |-> TRUE,
                   invoke |-> r.invoke,
                   text |-> format_invoke(r.invoke)]

\* adk_to_mcp_tool_type(tool): the protocol descriptor of a tool.
adk_to_mcp_tool_type(tool) ==
    [name        |-> tool.name,
     description |-> tool.description,
     inputSchema |-> tool.func.sig]

\* list_tools without the try of lines 45-50: the exception of the first
\* conversion that fails ends the listing, and nothing is returned.
list_tools_abort(tls, broken) ==
    IF broken \cap DOMAIN tls # {} THEN {}
    ELSE {adk_to_mcp_tool_type(tls[n]) : n \in DOMAIN tls}

\* list_tools(): one protocol descriptor per tool of the mapping whose
\* conversion does not raise; broken holds the names of the tools whose
\* conversion raises, which the except clause of line 49 logs and skips.
list_tools(tls, broken) ==
    {adk_to_mcp_tool_type(tls[n]) : n \in DOMAIN tls \ broken}

-----------------------------------------------------------------------------
(* http_server.py: the management handlers                                 *)

add_endpoint_handler(eps, tls, config) ==
    LET c == create_endpoint_from_config(config)
    IN  IF c.raised
        THEN [endpoints |-> eps, tools |-> tls,
              response |-> [status_code |-> 400, success |-> FALSE,
                            message |-> [fmt |-> "Error adding endpoint: %s",
                                         exc |-> c.exc]]]
        ELSE LET a == add_endpoint(eps, tls, c.value)
             IN  IF a.raised
                 THEN [endpoints |-> a.endpoints, tools |-> a.tools,
                       response |-> [status_code |-> 400, success |-> FALSE,
                                     message |-> [fmt |-> "Error adding endpoint: %s",
                                                  exc |-> a.exc]]]
                 ELSE [endpoints |-> a.endpoints, tools |-> a.tools,
                       response |-> [status_code |-> 200, success |-> TRUE,
                                     message |-> [fmt |-> "Successfully added endpoint '%s'",
                                                  endpoint |-> c.value.name],
                                     endpoint |-> [name   |-> c.value.name,
                                                   url    |-> c.value.url,
                                                   method |-> c.value.method]]]

remove_endpoint_handler(eps, tls, endpoint_name) ==
    IF endpoint_name = ""
    THEN [endpoints |-> eps, tools |-> tls,
          response |-> [status_code |-> 400, success |-> FALSE,
                        message |-> [fmt |-> "Endpoint name is required"]]]
    ELSE LET r == remove_endpoint(eps, tls, endpoint_name)
         IN  [endpoints |-> r.endpoints, tools |-> r.tools,
              response |-> IF r.removed
                           THEN [status_code |-> 200, success |-> TRUE,
                                 message |-> [fmt |-> "Successfully removed endpoint '%s'",
                                              endpoint |-> endpoint_name]]
                           ELSE [status_code |-> 404, success |-> FALSE,
                                 message |-> [fmt |-> "Endpoint '%s' not found",
                                              endpoint |-> endpoint_name]]]

list_endpoints_handler(eps) ==
    [status_code |-> 200, success |-> TRUE,
     endpoints |-> list_endpoints(eps),
     count |-> Cardinality(list_endpoints(eps))]

health_handler(eps, tls) ==
    [status          |-> "healthy",
     endpoints_count |-> Cardinality(DOMAIN eps),
     tools_count     |-> Cardinality(DOMAIN tls)]

-----------------------------------------------------------------------------
(* solana_wallet_mcp.py: get_signed_transaction                            *)

\* The character that opens and closes the names in the messages below.
Backquote == "backquote"

\* The message of the test of targetWallet: the name targetWallet between
\* backquotes, then " is required and must be a string."
TargetWalletMessage ==
    <<Backquote, "t", "a", "r", "g", "e", "t", "W", "a", "l", "l", "e", "t", Backquote,
      " ", "i", "s", " ", "r", "e", "q", "u", "i", "r", "e", "d", " ", "a",
      "n", "d", " ", "m", "u", "s", "t", " ", "b", "e", " ", "a", " ", "s",
      "t", "r", "i", "n", "g", ".">>

\* The message of the test of amountAtomic: the name amountAtomic between
\* backquotes, then " must be a positive integer."
AmountAtomicMessage ==
    <<Backquote, "a", "m", "o", "u", "n", "t", "A", "t", "o", "m", "i", "c", Backquote,
      " ", "m", "u", "s", "t", " ", "b", "e", " ", "a", " ", "p", "o", "s",
      "i", "t", "i", "v", "e", " ", "i", "n", "t", "e", "g", "e", "r", ".">>

\* get_signed_transaction(targetWallet, amountAtomic, mint) called with the
\* keywords of extra besides.  targetWallet and mint are a str or None;
\* amountAtomic is an int, a float or None.  chain is what the RPC node would
\* answer: whether it answers at all, the SOL balance of the wallet, the
\* balance of each token the wallet holds.  The result comes with the RPC
\* calls made, in order.
get_signed_transaction(targetWallet, amountAtomic, mint, extra, chain) ==
    IF extra # {}
    THEN [raised |-> TRUE, exc |-> "TypeError: got an unexpected keyword argument",
          rpc |-> <<>>]
    ELSE IF targetWallet.none \/ targetWallet.s = ""
    THEN [raised |-> FALSE, rpc |-> <<>>,
          result |-> [success |-> FALSE,
                      message |-> [text |-> TargetWalletMessage]]]
    ELSE IF amountAtomic.kind # "int" \/ amountAtomic.v <= 0
    THEN [raised |-> FALSE, rpc |-> <<>>,
          result |-> [success |-> FALSE,
                      message |-> [text |-> AmountAtomicMessage]]]
    ELSE IF ~chain.up
    THEN [raised |-> FALSE,
          rpc |-> <<IF mint.none THEN "get_balance" ELSE "fetch_token_balances">>,
          result |-> [success |-> FALSE,
                      message |-> [fmt |-> "Unexpected error: %s", exc |-> "rpc"]]]
    ELSE IF mint.none /\ chain.balance < amountAtomic.v
    THEN [raised |-> FALSE, rpc |-> <<"get_balance">>,
          result |-> [success |-> FALSE,
                      message |-> [fmt |-> "Insufficient SOL balance",
                                   need |-> amountAtomic.v,
                                   have |-> chain.balance,
                                   short |-> amountAtomic.v - chain.balance]]]
    ELSE IF ~mint.none /\ mint.s \notin DOMAIN chain.tokens
    THEN [raised |-> FALSE, rpc |-> <<"fetch_token_balances">>,
          result |-> [success |-> FALSE,
                      message |-> [fmt |-> "Insufficient balance for token %s.",
                                   mint |-> mint.s]]]
    ELSE IF ~mint.none /\ chain.tokens[mint.s] < amountAtomic.v
    THEN [raised |-> FALSE, rpc |-> <<"fetch_token_balances">>,
          result |-> [success |-> FALSE,
                      message |-> [fmt |-> "Insufficient balance",
                                   need |-> amountAtomic.v,
                                   have |-> chain.tokens[mint.s],
                                   short |-> amountAtomic.v - chain.tokens[mint.s]]]]
    ELSE LET balance == IF mint.none THEN "get_balance" ELSE "fetch_token_balances"
         IN  IF targetWallet.s \notin {"wallet"}
             THEN [raised |-> FALSE, rpc |-> <<balance>>,
                   result |-> [success |-> FALSE,
                               message |-> [fmt |-> "Unexpected error: %s",
                                            exc |-> "Invalid Base58 string"]]]
             ELSE [raised |-> FALSE,
                   rpc |-> IF mint.none
                           THEN <<balance, "get_latest_blockhash">>
                           ELSE <<balance, "get_latest_blockhash", "get_token_decimals">>,
                   result |-> [success |-> TRUE,
                               signedTransactionB64 |->
                                   [to |-> targetWallet.s, amount |-> amountAtomic.v,
                                    mint |-> mint],
                               message |-> [fmt |-> "signedTransactionB64: %s"]]]

-----------------------------------------------------------------------------
(* The requests the model draws.                                           *)

\* The endpoint names of the model.
Names == {"e1", "e2"}

pa == <<"a">>
pb == <<"b">>
pc == <<"c">>

\* A parameter of a registration body: {"name", "type", "description"} and,
\* when optional, "required": false.
Param(n, required) ==
    [name |-> n, type |-> "string", description |-> "p",
     required |-> required, default |-> NoneValue,
     missing |-> IF required THEN {"required", "default"} ELSE {"default"}]

ParamsNone == <<>>
ParamsReq == <<Param(pa, TRUE)>>
ParamsReqOpt == <<Param(pa, TRUE), Param(pb, FALSE)>>
\* An optional parameter before a required one.
ParamsOptReq == <<Param(pa, FALSE), Param(pb, TRUE)>>
\* The same name twice.
ParamsDup == <<Param(pa, TRUE), Param(pa, TRUE)>>
\* A parameter without its "type".
ParamsNoType == <<[Param(pa, TRUE) EXCEPT !.missing = {"type", "required", "default"}]>>

ParamLists == {ParamsNone, ParamsReq, ParamsReqOpt, ParamsOptReq, ParamsDup, ParamsNoType}

UrlPlain == <<"/", "u">>
UrlTemplate == <<"/", "u", "/", "{", "a", "}">>

\* The header dicts of a registration body; the keys of a dict are compared
\* as Python compares str, letter case included.
HeaderMaps ==
    {EmptyDict,
     [h \in {"Authorization"} |-> "t"],
     [h \in {"Content-Type"} |-> "text/plain"],
     [h \in {"content-type"} |-> "text/plain"]}

\* A body with every required key, a GET on the template url.
BaseConfig(n) ==
    [name |-> n, url |-> UrlTemplate, method |-> "GET", description |-> "d",
     parameters |-> ParamsReqOpt, headers |-> NoneHeaders, timeout |-> DefaultTimeout,
     missing |-> {"headers", "timeout"}]

\* The registration bodies: the base body with one of its parts varied.
Configs ==
    {[BaseConfig("e1") EXCEPT !.method = m] : m \in {"GET", "POST", "FETCH"}}
    \cup {[BaseConfig("e1") EXCEPT !.parameters = ps] : ps \in ParamLists}
    \cup {[BaseConfig("e1") EXCEPT !.missing = @ \cup {k}] :
            k \in {"name", "url", "method", "description", "parameters"}}
    \cup {[BaseConfig("e1") EXCEPT !.method = "POST", !.headers = Headers(h),
                                   !.missing = {"timeout"}] : h \in HeaderMaps}
    \cup {[BaseConfig("e1") EXCEPT !.url = UrlPlain, !.timeout = 5,
                                   !.missing = {"headers"}]}
    \cup {BaseConfig("e2"),
          [BaseConfig("e2") EXCEPT !.parameters = ParamsOptReq]}

\* The call-time argument dicts.
KwargsSet ==
    {EmptyDict,
     [k \in {pa} |-> StrValue(<<"4", "2">>)],
     [k \in {pa, pc} |-> StrValue(<<"4", "2">>)]}

\* Registration bodies that differ in what the request is built from: the url
\* template, the method, the order of the parameters, the headers.
UrlTwo == <<"/", "{", "a", "}", "/", "{", "b", "}">>
UrlQuery == <<"/", "{", "b", "}", "?", "{", "a", "}">>
\* A template whose braces nest.
UrlNested == <<"/", "{", "a", "{", "b", "}", "}">>

BuildUrls == {UrlPlain, UrlTemplate, UrlTwo, UrlQuery, UrlNested}

ParamsReqReq == <<Param(pb, TRUE), Param(pa, TRUE)>>

BuildConfigs ==
    {[BaseConfig("e1") EXCEPT !.url = u, !.method = m, !.parameters = ps] :
        u \in BuildUrls, m \in HTTPMethod, ps \in {ParamsReqOpt, ParamsReqReq}}
    \cup {[BaseConfig("e1") EXCEPT !.method = m, !.headers = Headers(h),
                                   !.missing = {"timeout"}] :
            m \in {"GET", "POST", "PATCH"}, h \in HeaderMaps}

\* Call-time values: plain text, the empty text, text that reads as a
\* placeholder.
ValuesA == {<<"4", "2">>, <<"{", "b", "}">>}
ValuesB == {<<"t">>, <<>>, <<"{", "a", "}">>}

BuildKwargs ==
    {[k \in {pa} |-> StrValue(va)] : va \in ValuesA}
    \cup {[k \in {pa, pb} |-> StrValue(IF k = pa THEN va ELSE vb)] :
            va \in ValuesA, vb \in ValuesB}

\* What the HTTP transport answers a request with.
Responses ==
    {[status |-> 200, content_type |-> "application/json", body |-> "{\"id\": 1}"],
     [status |-> 404, content_type |-> "text/plain", body |-> "no"],
     [status |-> 200, content_type |-> "application/json", body |-> "no"]}

\* The responses the normalizer is exercised with: the statuses at both ends
\* of the 2xx range, every content type, bodies of every truth value.
Statuses == {200, 201, 299, 300, 404}

ContentTypes == {"application/json", "application/problem+json", "text/json", "text/plain"}

Bodies == {"{\"id\": 1}", "[]", "{}", "\"\"", "0", "false", "null", "", "no"}

NormalizerResponses ==
    {[status |-> st, content_type |-> ct, body |-> bd] :
        st \in Statuses, ct \in ContentTypes, bd \in Bodies}

\* How the HTTP transport fails a request.
TransportFailures == {"timeout", "connection refused", "dns failure"}

-----------------------------------------------------------------------------
(* The state machine.                                                      *)

Init ==
    /\ endpoints = EmptyDict
    /\ tools = EmptyDict
    /\ calls = <<>>
    /\ last = [op |-> "init"]
    /\ listing = NoListing
    /\ requests = <<>>

\* POST /api/endpoints
AddEndpointHandler(config) ==
    LET r == add_endpoint_handler(endpoints, tools, config)
    IN  /\ endpoints' = r.endpoints
        /\ tools' = r.tools
        /\ last' = [op |-> "add",
                    named |-> "name" \notin config.missing,
                    name |-> config.name,
                    response |-> r.response]
        /\ UNCHANGED <<calls, listing, requests>>

\* POST /api/endpoints with a body request.json() cannot parse.
AddEndpointBadBody ==
    /\ last' = [op |-> "add", named |-> FALSE, name |-> "",
                response |-> [status_code |-> 400, success |-> FALSE,
                              message |-> [fmt |-> "Error adding endpoint: %s",
                                           exc |-> "JSONDecodeError"]]]
    /\ UNCHANGED <<endpoints, tools, calls, listing, requests>>

\* DELETE /api/endpoints/{name}
RemoveEndpointHandler(endpoint_name) ==
    LET r == remove_endpoint_handler(endpoints, tools, endpoint_name)
    IN  /\ endpoints' = r.endpoints
        /\ tools' = r.tools
        /\ last' = [op |-> "remove", name |-> endpoint_name, response |-> r.response]
        /\ UNCHANGED <<calls, listing, requests>>

\* GET /api/endpoints
ListEndpointsHandler ==
    /\ last' = [op |-> "list", response |-> list_endpoints_handler(endpoints)]
    /\ UNCHANGED <<endpoints, tools, calls, listing, requests>>

\* GET /health
HealthHandler ==
    /\ last' = [op |-> "health", response |-> health_handler(endpoints, tools)]
    /\ UNCHANGED <<endpoints, tools, calls, listing, requests>>

\* listTools of the protocol; the conversion of the tools named in broken
\* raises.
ListTools(broken) ==
    /\ last' = [op |-> "list_tools", broken |-> broken,
                response |-> list_tools(tools, broken)]
    /\ UNCHANGED <<endpoints, tools, calls, listing, requests>>

\* callTool of the protocol, up to its answer or to the await of its request.
CallTool(name, kwargs, precheck) ==
    LET r == call_tool(endpoints, tools, name, kwargs, precheck)
    IN  /\ endpoints' = r.endpoints
        /\ UNCHANGED <<tools, listing, requests>>
        /\ IF r.sent
           THEN /\ Len(calls) < MaxCalls
                /\ calls' = Append(calls, [name |-> name,
                                            endpoint |-> r.endpoint,
                                            arguments |-> r.arguments,
                                            request |-> r.request])
                /\ last' = [op |-> "send", name |-> name, kwargs |-> kwargs]
           ELSE /\ UNCHANGED calls
                /\ last' = [op |-> "call", name |-> name, sent |-> FALSE,
                            found |-> r.found,
                            missing |-> IF r.found
                                        THEN MissingArgs(tools[name].func.sig, kwargs)
                                        ELSE <<>>,
                            invoke |-> r.invoke, text |-> r.text]

RemoveAt(seq, i) == SubSeq(seq, 1, i - 1) \o SubSeq(seq, i + 1, Len(seq))

\* The arrival of a response handled by reading the registry again: the
\* envelope of a call whose endpoint is gone says so.
RespondReread(i, response) ==
    LET invoke == [kind |-> "returned",
                   value |-> IF calls[i].name \in DOMAIN endpoints
                             THEN process_response(response, calls[i].name)
                             ELSE call_api_endpoint(endpoints, calls[i].name,
                                                    calls[i].arguments).result]
    IN  /\ calls' = RemoveAt(calls, i)
        /\ last' = [op |-> "call", name |-> calls[i].name, sent |-> TRUE,
                    found |-> TRUE, missing |-> <<>>,
                    net |-> "response", url |-> calls[i].request.url,
                    response |-> response,
                    invoke |-> invoke, text |-> format_invoke(invoke)]
        /\ UNCHANGED <<endpoints, tools, listing, requests>>

\* The response of a suspended call arrives.
Respond(i, response) ==
    LET invoke == [kind |-> "returned",
                   value |-> process_response(response, calls[i].name)]
    IN  /\ calls' = RemoveAt(calls, i)
        /\ last' = [op |-> "call", name |-> calls[i].name, sent |-> TRUE,
                    found |-> TRUE, missing |-> <<>>,
                    net |-> "response", url |-> calls[i].request.url,
                    response |-> response,
                    invoke |-> invoke, text |-> format_invoke(invoke)]
        /\ UNCHANGED <<endpoints, tools, listing, requests>>

\* The request of a suspended call fails in the transport.
TransportFailure(i, failure) ==
    LET invoke == call_api_endpoint_except(calls[i], failure)
    IN  /\ calls' = RemoveAt(calls, i)
        /\ last' = [op |-> "call", name |-> calls[i].name, sent |-> TRUE,
                    found |-> TRUE, missing |-> <<>>,
                    net |-> failure, url |-> calls[i].request.url,
                    invoke |-> invoke, text |-> format_invoke(invoke)]
        /\ UNCHANGED <<endpoints, tools, listing, requests>>

\* Some call_tool runs up to its answer or to the await of its request.
SomeCallTool(kwargsSet) ==
    \E n \in Names, kwargs \in kwargsSet, precheck \in BOOLEAN :
        CallTool(n, kwargs, precheck)

\* The transport answers a suspended call.
SomeRespond == \E i \in 1..Len(calls), response \in Responses : Respond(i, response)

\* The transport fails a suspended call.
SomeTransportFailure ==
    \E i \in 1..Len(calls), failure \in TransportFailures : TransportFailure(i, failure)

Next ==
    \/ \E config \in Configs : AddEndpointHandler(config)
    \/ AddEndpointBadBody
    \/ \E n \in Names : RemoveEndpointHandler(n)
    \/ ListEndpointsHandler
    \/ HealthHandler
    \/ \E broken \in SUBSET Names : ListTools(broken)
    \/ SomeCallTool(KwargsSet)
    \/ SomeRespond
    \/ SomeTransportFailure

Spec == Init /\ [][Next]_vars

\* The request builder on its own: one endpoint was registered, and tools are
\* called with arguments of every shape.
InitBuild ==
    \E config \in BuildConfigs :
        LET r == add_endpoint_handler(EmptyDict, EmptyDict, config)
        IN  /\ endpoints = r.endpoints
            /\ tools = r.tools
            /\ calls = <<>>
            /\ last = [op |-> "add", named |-> TRUE, name |-> config.name,
                       response |-> r.response]
            /\ listing = NoListing
            /\ requests = <<>>

NextBuild ==
    \/ SomeCallTool(BuildKwargs)
    \/ SomeRespond
    \/ SomeTransportFailure

SpecBuild == InitBuild /\ [][NextBuild]_vars

\* A caller inside the process calls list_endpoints() and keeps the result.
ListEndpoints ==
    /\ listing' = ReturnedListing(endpoints)
    /\ last' = [op |-> "list_endpoints"]
    /\ UNCHANGED <<endpoints, tools, calls, requests>>

\* The holder of a listing changes it: drops the entry of name n from the
\* list ("list"), adds a header to the headers of the entry ("headers"),
\* drops the first parameter of the entry ("parameters"), or assigns the url
\* of the entry ("url").  A write to a part shared with the registry is a
\* write to the registry.
ChangeListing(n, part) ==
    /\ listing.held
    /\ n \in DOMAIN listing.entries
    /\ LET entry == listing.entries[n]
           through == part \in listing.shared /\ n \in DOMAIN endpoints
       IN  CASE part = "list" ->
                  /\ listing' = [listing EXCEPT !.entries = Del(@, n)]
                  /\ endpoints' = IF through THEN Del(endpoints, n) ELSE endpoints
             [] part = "headers" ->
                  /\ ~entry.headers.none
                  /\ "X-Changed" \notin DOMAIN entry.headers.map
                  /\ LET changed == Headers(Put(entry.headers.map, "X-Changed", "1"))
                     IN  /\ listing' = [listing EXCEPT !.entries[n].headers = changed]
                         /\ endpoints' = IF through
                                         THEN [endpoints EXCEPT ![n].headers = changed]
                                         ELSE endpoints
             [] part = "parameters" ->
                  /\ entry.parameters # <<>>
                  /\ listing' = [listing EXCEPT !.entries[n].parameters = Tail(@)]
                  /\ endpoints' = IF through
                                  THEN [endpoints EXCEPT ![n].parameters = Tail(entry.parameters)]
                                  ELSE endpoints
             [] part = "url" ->
                  /\ entry.url # <<>>
                  /\ listing' = [listing EXCEPT !.entries[n].url = <<>>]
                  /\ endpoints' = endpoints
    /\ last' = [op |-> "change_listing", name |-> n, part |-> part]
    /\ UNCHANGED <<tools, calls, requests>>

\* The registration bodies of the listings: with headers, without, with one
\* parameter.
ListConfigs ==
    {[BaseConfig("e1") EXCEPT !.method = "POST",
                              !.headers = Headers([h \in {"Authorization"} |-> "t"]),
                              !.missing = {"timeout"}],
     [BaseConfig("e1") EXCEPT !.parameters = ParamsReq],
     BaseConfig("e2")}

\* The registry with a caller that keeps its listings.
NextList ==
    \/ \E config \in ListConfigs : AddEndpointHandler(config)
    \/ \E n \in Names : RemoveEndpointHandler(n)
    \/ ListEndpoints
    \/ \E n \in Names, part \in {"list", "headers", "parameters", "url"} :
          ChangeListing(n, part)

SpecList == Init /\ [][NextList]_vars

\* POST /api/endpoints up to its await: the handler is entered and suspends in
\* `await request.json()` (line 66) until the body is read.  arrived holds the
\* names registered at that moment.
AddEndpointReceive(config) ==
    /\ Len(requests) < MaxRequests
    /\ requests' = Append(requests, [state |-> "reading", config |-> config,
                                      arrived |-> DOMAIN endpoints])
    /\ UNCHANGED <<endpoints, tools, calls, last, listing>>

\* How many of the requests were served.
Served(reqs) == Cardinality({j \in 1..Len(reqs) : reqs[j].state = "served"})

\* What a served request is remembered by: its response, its place among the
\* served ones, whether its name was free when it was served, and the
\* requests that were being read at that moment.
ServedRequest(reqs, i, response, free) ==
    [state    |-> "served",
     config   |-> reqs[i].config,
     arrived  |-> reqs[i].arrived,
     response |-> response,
     order    |-> Served(reqs) + 1,
     free     |-> free,
     reading  |-> {j \in 1..Len(reqs) : j # i /\ reqs[j].state = "reading"}]

\* A handler that tests the name before it suspends and stores after: the
\* name is taken as free when it was free at the arrival of the request.
AddEndpointResumeStale(i) ==
    /\ requests[i].state = "reading"
    /\ LET config == requests[i].config
           c == create_endpoint_from_config(config)
           a == add_endpoint_overwrite(endpoints, tools, c.value)
           ok == config.name \notin requests[i].arrived /\ ~a.raised
           response == IF ok
                       THEN [status_code |-> 200, success |-> TRUE,
                             message |-> [fmt |-> "Successfully added endpoint '%s'",
                                          endpoint |-> config.name]]
                       ELSE [status_code |-> 400, success |-> FALSE,
                             message |-> [fmt |-> "Error adding endpoint: %s",
                                          exc |-> "ValueError: already exists"]]
       IN  /\ ~c.raised
           /\ endpoints' = IF ok THEN a.endpoints ELSE endpoints
           /\ tools' = IF ok THEN a.tools ELSE tools
           /\ last' = [op |-> "add", named |-> TRUE, name |-> config.name,
                       response |-> response]
           /\ requests' = [requests EXCEPT
                             ![i] = ServedRequest(requests, i, response,
                                                  config.name \notin DOMAIN endpoints)]
    /\ UNCHANGED <<calls, listing>>

\* POST /api/endpoints from its await on: the body is read and lines 67-85
\* run without suspending.
AddEndpointResume(i) ==
    /\ requests[i].state = "reading"
    /\ LET config == requests[i].config
           r == add_endpoint_handler(endpoints, tools, config)
       IN  /\ endpoints' = r.endpoints
           /\ tools' = r.tools
           /\ last' = [op |-> "add",
                       named |-> "name" \notin config.missing,
                       name |-> config.name,
                       response |-> r.response]
           /\ requests' = [requests EXCEPT
                             ![i] = ServedRequest(requests, i, r.response,
                                                  config.name \notin DOMAIN endpoints)]
    /\ UNCHANGED <<calls, listing>>

\* The registration bodies sent at the same time: two bodies for e1 that
\* differ in url and timeout, one for e1 whose signature inspect refuses, one
\* for e2.
ConcurrentConfigs ==
    {BaseConfig("e1"),
     [BaseConfig("e1") EXCEPT !.url = UrlPlain, !.timeout = 5, !.missing = {"headers"}],
     [BaseConfig("e1") EXCEPT !.parameters = ParamsOptReq],
     BaseConfig("e2")}

\* Registration requests that overlap in time, with discovery going on.
NextConcurrent ==
    \/ \E config \in ConcurrentConfigs : AddEndpointReceive(config)
    \/ \E i \in 1..Len(requests) : AddEndpointResume(i)
    \/ \E broken \in SUBSET Names : ListTools(broken)
    \/ HealthHandler

SpecConcurrent == Init /\ [][NextConcurrent]_vars

\* The registration bodies of a name that is registered, unregistered and
\* registered again: two bodies for e1 that differ in url, method, headers,
\* timeout and parameters, one for e1 whose signature inspect refuses, one
\* for e2.
ReplaceConfigs ==
    {BaseConfig("e1"),
     [BaseConfig("e1") EXCEPT !.url = UrlPlain, !.method = "POST",
                              !.parameters = ParamsReq,
                              !.headers = Headers([h \in {"Authorization"} |-> "t"]),
                              !.timeout = 5, !.missing = {}],
     [BaseConfig("e1") EXCEPT !.parameters = ParamsOptReq],
     BaseConfig("e2")}

\* The registry with its registration requests remembered, and invocations
\* going on while endpoints are registered and unregistered.
NextReplace ==
    \/ \E config \in ReplaceConfigs : AddEndpointReceive(config)
    \/ \E i \in 1..Len(requests) : AddEndpointResume(i)
    \/ \E n \in Names : RemoveEndpointHandler(n)
    \/ SomeCallTool(KwargsSet)
    \/ SomeRespond
    \/ SomeTransportFailure

SpecReplace == Init /\ [][NextReplace]_vars

\* Registration bodies that differ in the parameters' types, defaults and
\* order, and in the timeout.
SchemaParam(n, type, required, default) ==
    [name |-> n, type |-> type, description |-> "p",
     required |-> required, default |-> default, missing |-> {}]

DefaultSeven == StrValue(<<"7">>)

SchemaParamLists ==
    {<<SchemaParam(pa, "string", TRUE, NoneValue),
       SchemaParam(pb, "number", FALSE, DefaultSeven),
       SchemaParam(pc, "boolean", FALSE, NoneValue)>>,
     <<SchemaParam(pb, "object", TRUE, DefaultSeven),
       SchemaParam(pa, "array", FALSE, DefaultSeven)>>,
     <<SchemaParam(pa, "integer", TRUE, NoneValue)>>,
     <<[SchemaParam(pa, "number", FALSE, NoneValue) EXCEPT !.missing = {"default"}]>>,
     ParamsOptReq,
     ParamsDup}

\* The timeouts of a registration body: seconds, as JSON numbers.
SchemaTimeouts == {0 - 1, 0, 5}

SchemaConfigs ==
    {[BaseConfig("e1") EXCEPT !.url = UrlPlain, !.method = m, !.parameters = ps] :
        m \in {"GET", "POST"}, ps \in SchemaParamLists}
    \cup {[BaseConfig("e2") EXCEPT !.timeout = t, !.missing = {"headers"}] :
            t \in SchemaTimeouts}
    \cup {BaseConfig("e2")}

SchemaKwargs ==
    {[k \in {pa} |-> StrValue(<<"4", "2">>)],
     [k \in {pa, pb} |-> StrValue(<<"4", "2">>)],
     [k \in {pa, pb, pc} |-> StrValue(<<"4", "2">>)]}

NextSchema ==
    \/ \E config \in SchemaConfigs : AddEndpointHandler(config)
    \/ \E n \in Names : RemoveEndpointHandler(n)
    \/ SomeCallTool(SchemaKwargs)
    \/ SomeRespond
    \/ SomeTransportFailure

SpecSchema == Init /\ [][NextSchema]_vars

\* An invocation whose tool was taken from the registry (core.py line 62, or
\* the dict get_tools returns) and whose function has not been called yet:
\* run_async of the ADK is a coroutine of a library, and what it awaits
\* before it calls the function is the library's.
HeldCall(name, tool, kwargs) ==
    [name |-> name, held |-> TRUE, tool |-> tool, kwargs |-> kwargs]

IsHeld(call) == "held" \in DOMAIN call

\* call_tool up to the tool it took from the registry.
CallToolLookup(name, kwargs) ==
    /\ name \in DOMAIN tools
    /\ Len(calls) < MaxCalls
    /\ calls' = Append(calls, HeldCall(name, tools[name], kwargs))
    /\ last' = [op |-> "lookup", name |-> name]
    /\ UNCHANGED <<endpoints, tools, listing, requests>>

\* The function of a held tool is called: endpoint_function binds the
\* arguments and _call_api_endpoint runs up to its answer or to the await of
\* its request.
CallToolResume(i, precheck) ==
    /\ IsHeld(calls[i])
    /\ LET r == run_async(endpoints, calls[i].tool, calls[i].kwargs, precheck)
       IN  /\ endpoints' = r.endpoints
           /\ UNCHANGED <<tools, listing, requests>>
           /\ IF r.sent
              THEN /\ calls' = [calls EXCEPT ![i] = [name |-> calls[i].name,
                                                     endpoint |-> r.endpoint,
                                                     arguments |-> r.arguments,
                                                     request |-> r.request]]
                   /\ last' = [op |-> "send", name |-> calls[i].name,
                               kwargs |-> calls[i].kwargs]
              ELSE /\ calls' = RemoveAt(calls, i)
                   /\ last' = [op |-> "call", name |-> calls[i].name, sent |-> FALSE,
                               found |-> TRUE,
                               missing |-> MissingArgs(calls[i].tool.func.sig,
                                                       calls[i].kwargs),
                               invoke |-> r.invoke, text |-> format_invoke(r.invoke)]

\* The calls whose request is with the transport.
InFlight(cs) == {i \in 1..Len(cs) : ~IsHeld(cs[i])}

HeldConfigs ==
    {BaseConfig("e1"),
     [BaseConfig("e1") EXCEPT !.url = UrlPlain, !.method = "POST",
                              !.parameters = ParamsReq, !.timeout = 5,
                              !.missing = {"headers"}],
     BaseConfig("e2")}

NextHeld ==
    \/ \E config \in HeldConfigs : AddEndpointHandler(config)
    \/ \E n \in Names : RemoveEndpointHandler(n)
    \/ \E n \in Names, kwargs \in KwargsSet : CallToolLookup(n, kwargs)
    \/ \E i \in 1..Len(calls), precheck \in BOOLEAN : CallToolResume(i, precheck)
    \/ \E i \in InFlight(calls), response \in Responses : Respond(i, response)
    \/ \E i \in InFlight(calls), failure \in TransportFailures :
          TransportFailure(i, failure)

SpecHeld == Init /\ [][NextHeld]_vars

\* A str, or None, of the wallet's arguments.
NoneStr == [none |-> TRUE, s |-> ""]
AStr(t) == [none |-> FALSE, s |-> t]

\* The arguments of get_signed_transaction: no wallet, an empty one, the
\* address of a wallet, text that is no address; amounts around zero, None and
\* a float; SOL, a token the wallet holds, one it does not hold.
TargetWallets == {NoneStr, AStr(""), AStr("wallet"), AStr("XYZ_INVALID_WALLET")}

Amounts ==
    {[kind |-> "int", v |-> v] : v \in {-1, 0, 1, 5, 9}}
    \cup {[kind |-> "none", v |-> 0], [kind |-> "float", v |-> 1]}

Mints == {NoneStr, AStr("USDC"), AStr("RAY")}

Chains ==
    {[up |-> up, balance |-> b, tokens |-> [m \in {"USDC"} |-> t]] :
        up \in BOOLEAN, b \in {0, 5}, t \in {0, 5}}

\* get_signed_transaction of the wallet server.
GetSignedTransaction(targetWallet, amountAtomic, mint, extra, chain) ==
    /\ last' = [op |-> "get_signed_transaction",
                targetWallet |-> targetWallet,
                amountAtomic |-> amountAtomic,
                mint |-> mint,
                extra |-> extra,
                chain |-> chain,
                call |-> get_signed_transaction(targetWallet, amountAtomic, mint,
                                                extra, chain)]
    /\ UNCHANGED <<endpoints, tools, calls, listing, requests>>

NextWallet ==
    \E targetWallet \in TargetWallets, amountAtomic \in Amounts, mint \in Mints,
       extra \in {{}, {"network"}}, chain \in Chains :
        GetSignedTransaction(targetWallet, amountAtomic, mint, extra, chain)

SpecWallet == Init /\ [][NextWallet]_vars

\* The response normalizer on its own: two endpoints are registered, and the
\* calls are answered with responses of every shape.
InitResponse ==
    LET r1 == add_endpoint_handler(EmptyDict, EmptyDict, BaseConfig("e1"))
        r2 == add_endpoint_handler(r1.endpoints, r1.tools,
                                   [BaseConfig("e2") EXCEPT !.method = "POST"])
    IN  /\ endpoints = r2.endpoints
        /\ tools = r2.tools
        /\ calls = <<>>
        /\ last = [op |-> "add", named |-> TRUE, name |-> "e2",
                   response |-> r2.response]
        /\ listing = NoListing
        /\ requests = <<>>

NextResponse ==
    \/ SomeCallTool(KwargsSet)
    \/ \E i \in 1..Len(calls), response \in NormalizerResponses : Respond(i, response)
    \/ SomeTransportFailure

SpecResponse == InitResponse /\ [][NextResponse]_vars

-----------------------------------------------------------------------------
(* The registry: claims C1 to C5.                                          *)

\* C1: in every reachable state the names that hold a descriptor are the
\* names that hold a tool.
C1_DescriptorIffTool == DOMAIN endpoints = DOMAIN tools

\* C2: a registration request answered with a failure leaves the descriptor
\* mapping and the tool mapping as they were.
C2_FailedAddChangesNothing ==
    [][(last'.op = "add" /\ ~last'.response.success)
          => (endpoints' = endpoints /\ tools' = tools)]_vars

\* C3: registering a name that is already present fails and leaves both
\* mappings, the first descriptor and its tool included, as they were.
C3_DuplicateRejected ==
    [][(last'.op = "add" /\ last'.named /\ last'.name \in DOMAIN endpoints)
          => /\ ~last'.response.success
             /\ last'.response.status_code = 400
             /\ endpoints' = endpoints
             /\ tools' = tools]_vars

\* A duplicate registration was just refused while two endpoints, the one of
\* that name with its tool, are registered.
C3_Witness ==
    /\ last.op = "add"
    /\ last.response.message = [fmt |-> "Error adding endpoint: %s",
                                exc |-> "ValueError: already exists"]
    /\ last.name \in DOMAIN endpoints \cap DOMAIN tools
    /\ Cardinality(DOMAIN endpoints) = 2

\* C4: listTools, when every conversion succeeds, returns as many tools as
\* there are registered endpoints, and health reports endpoints_count equal to
\* tools_count.
C4_CountsAgree ==
    /\ Cardinality(list_tools(tools, {})) = Cardinality(list_endpoints(endpoints))
    /\ health_handler(endpoints, tools).endpoints_count
          = health_handler(endpoints, tools).tools_count

\* C5: unregister answers true exactly when the name was registered; on an
\* unregistered name nothing changes; on a registered name the descriptor and
\* the tool of that name are gone after the step and every other entry is as
\* it was.
C5_Unregister ==
    [][last'.op = "remove" =>
          LET n == last'.name
          IN  /\ last'.response.success = (n \in DOMAIN endpoints)
              /\ n \notin DOMAIN endpoints
                    => (endpoints' = endpoints /\ tools' = tools)
              /\ n \in DOMAIN endpoints
                    => /\ endpoints' = Del(endpoints, n)
                       /\ DOMAIN tools' = DOMAIN tools \ {n}
                       /\ \A m \in DOMAIN tools' : tools'[m] = tools[m]]_vars

\* An unregister just answered true, the name holds neither a descriptor nor a
\* tool, and another endpoint is still registered with its tool.
C5_Witness ==
    /\ last.op = "remove"
    /\ last.response.success
    /\ last.name \notin DOMAIN endpoints \cup DOMAIN tools
    /\ \E m \in DOMAIN endpoints : m \in DOMAIN tools

-----------------------------------------------------------------------------
(* Invocation: claims C6 to C9.                                            *)

\* C6: no step of an invocation changes a stored descriptor or what list()
\* returns for it.
C6_InvocationKeepsDescriptor ==
    [][last'.op \in {"send", "call"}
          => /\ endpoints' = endpoints
             /\ list_endpoints(endpoints') = list_endpoints(endpoints)]_vars

\* C7: when the transport fails (timeout, connection refused, dns failure),
\* the tool's invoke returns an envelope with success = false, without status
\* code, whose message names the url of the request.
C7_TransportFailureEnvelope ==
    (last.op = "call" /\ last.sent /\ last.net \in TransportFailures)
       => /\ last.invoke.kind = "returned"
          /\ ~last.invoke.value.success
          /\ "status_code" \notin DOMAIN last.invoke.value
          /\ "url" \in DOMAIN last.invoke.value.message
          /\ last.invoke.value.message.url = last.url

\* C8: a call whose transport never answers ends, at its timeout, with a
\* failure envelope returned by the invoke, not with an exception.
C8_TimeoutEnvelope ==
    (last.op = "call" /\ last.sent /\ last.net = "timeout")
       => /\ last.invoke.kind = "returned"
          /\ "success" \in DOMAIN last.invoke.value
          /\ ~last.invoke.value.success

\* C9: invoking a tool without one of its required parameters returns, with
\* no request sent, the envelope success = false, "Missing required
\* parameter: <name>".
C9_MissingRequiredEnvelope ==
    (last.op = "call" /\ last.found /\ last.missing # <<>>)
       => /\ ~last.sent
          /\ last.invoke.kind = "returned"
          /\ \E i \in 1..Len(last.missing) :
                last.invoke.value =
                    [success |-> FALSE,
                     message |-> [fmt |-> "Missing required parameter: %s",
                                  param |-> last.missing[i]]]

-----------------------------------------------------------------------------
(* The request builder: claim C10.                                         *)

\* The template with every placeholder of an argument replaced by the text of
\* that argument, in one pass from left to right.
RECURSIVE Substituted(_, _)
Substituted(template, arguments) ==
    IF template = <<>> THEN <<>>
    ELSE LET hits == {i \in 1..Len(arguments) :
                        StartsWith(template, Placeholder(arguments[i].name))}
         IN  IF hits # {}
             THEN LET i == CHOOSE h \in hits : TRUE
                      n == Len(Placeholder(arguments[i].name))
                  IN  Str(arguments[i].value)
                         \o Substituted(SubSeq(template, n + 1, Len(template)), arguments)
             ELSE <<Head(template)>> \o Substituted(Tail(template), arguments)

\* Every brace of the template is part of a placeholder {identifier}.
RECURSIVE TemplateWellFormed(_)
TemplateWellFormed(template) ==
    IF template = <<>> THEN TRUE
    ELSE IF Head(template) = "}" THEN FALSE
    ELSE IF Head(template) = "{"
    THEN \E n \in 3..Len(template) :
            /\ template[n] = "}"
            /\ \A m \in 2..(n - 1) : template[m] \in IdentChars
            /\ TemplateWellFormed(SubSeq(template, n + 1, Len(template)))
    ELSE TemplateWellFormed(Tail(template))

\* No argument's text holds a brace.
PlainValues(arguments) ==
    \A i \in 1..Len(arguments) :
        \A j \in 1..Len(Str(arguments[i].value)) :
            Str(arguments[i].value)[j] \notin {"{", "}"}

\* C10: in the request of a GET or DELETE descriptor, an argument whose
\* placeholder is in the url template is not among the query parameters, and
\* every other argument is among them exactly once, with its value; the query
\* holds nothing else.  The url is the template with the placeholder of every
\* argument replaced by the text of its value (stated for a template whose
\* braces are placeholders and for values that hold no brace).
C10_PathAndQuery ==
    \A i \in 1..Len(calls) :
        LET c == calls[i]
        IN  c.endpoint.method \in {"GET", "DELETE"} =>
              /\ "params" \in DOMAIN c.request
              /\ \A j \in 1..Len(c.arguments) :
                    IF Contains(c.endpoint.url, Placeholder(c.arguments[j].name))
                    THEN ~HasArg(c.request.params, c.arguments[j].name)
                    ELSE Cardinality({k \in 1..Len(c.request.params) :
                            c.request.params[k].name = c.arguments[j].name}) = 1
                         /\ \E k \in 1..Len(c.request.params) :
                               c.request.params[k] = c.arguments[j]
              /\ \A k \in 1..Len(c.request.params) :
                    \E j \in 1..Len(c.arguments) : c.request.params[k] = c.arguments[j]
              /\ (TemplateWellFormed(c.endpoint.url) /\ PlainValues(c.arguments))
                    => c.request.url = Substituted(c.endpoint.url, c.arguments)

\* A GET on "/u/{a}" with a = "42" and b = "t" is in flight: its url is
\* "/u/42" and its query is b = "t" alone.
C10_Witness ==
    \E i \in 1..Len(calls) :
        /\ calls[i].endpoint.method = "GET"
        /\ calls[i].endpoint.url = UrlTemplate
        /\ calls[i].arguments = <<[name |-> pa, value |-> StrValue(<<"4", "2">>)],
                                  [name |-> pb, value |-> StrValue(<<"t">>)]>>
        /\ calls[i].request.url = <<"/", "u", "/", "4", "2">>
        /\ calls[i].request.params = <<[name |-> pb, value |-> StrValue(<<"t">>)]>>

-----------------------------------------------------------------------------
(* The request builder: claim C11.                                         *)

\* The names under which HTTP knows the Content-Type header: header names are
\* matched without regard to letter case.
IsContentType(k) == k \in {"Content-Type", "content-type"}

\* The Content-Type keys of a header dict.
ContentTypeKeys(map) == {k \in DOMAIN map : IsContentType(k)}

\* C11: in the request of a POST, PUT or PATCH descriptor the body is the
\* whole argument map, the arguments consumed by the path included; when the
\* descriptor's headers set no Content-Type the request carries Content-Type:
\* application/json, and when they set one the request carries that value and
\* no other.
C11_BodyAndContentType ==
    \A i \in 1..Len(calls) :
        LET c == calls[i]
            explicit == IF c.endpoint.headers.none THEN {}
                        ELSE ContentTypeKeys(c.endpoint.headers.map)
            carried == ContentTypeKeys(c.request.headers)
        IN  c.endpoint.method \in {"POST", "PUT", "PATCH"} =>
              /\ "json" \in DOMAIN c.request
              /\ c.request.json = c.arguments
              /\ IF explicit = {}
                 THEN /\ carried # {}
                      /\ \A k \in carried : c.request.headers[k] = "application/json"
                 ELSE /\ carried = explicit
                      /\ \A k \in carried :
                            c.request.headers[k] = c.endpoint.headers.map[k]

-----------------------------------------------------------------------------
(* The response normalizer: claims C12 and C13.                            *)

\* The last operation is a call that received a response.
Received == last.op = "call" /\ last.sent /\ last.net = "response"

C13_DecodingFailureEnvelope ==
    (Received /\ response_data(last.response).raised) =>
        /\ last.invoke.kind = "returned"
        /\ ~last.invoke.value.success
        /\ "status_code" \in DOMAIN last.invoke.value
        /\ last.invoke.value.status_code = last.response.status
        /\ last.text = [fmt |-> "Error processing response: %s",
                        exc |-> response_data(last.response).exc]

\* A response with status 200 that declares JSON and holds a malformed body
\* was just turned into a failure envelope with status code 200.
C13_Witness ==
    /\ Received
    /\ last.response = [status |-> 200, content_type |-> "application/json",
                        body |-> "no"]
    /\ ~last.invoke.value.success
    /\ last.invoke.value.status_code = 200

-----------------------------------------------------------------------------
(* The protocol adapter: claims C14 to C17.                                *)

\* C14: a callTool whose name holds no tool answers, in the same step, with
\* the text "Tool '<name>' not found"; no tool is invoked, no request is sent
\* or left in flight, and the registry is as it was.
C14_UnknownToolNotFound ==
    [][((last'.op = "send" \/ (last'.op = "call" /\ ~last'.sent))
           /\ last'.name \notin DOMAIN tools)
          => /\ last'.op = "call"
             /\ ~last'.found
             /\ last'.invoke.kind = "none"
             /\ last'.text = [fmt |-> "Tool '%s' not found", tool |-> last'.name]
             /\ calls' = calls
             /\ endpoints' = endpoints
             /\ tools' = tools]_vars

\* A call of a name without tool was just answered "not found" while the
\* other name is registered with its tool and no request is in flight.
C14_Witness ==
    /\ last.op = "call"
    /\ ~last.found
    /\ last.name \notin DOMAIN tools
    /\ last.text = [fmt |-> "Tool '%s' not found", tool |-> last.name]
    /\ DOMAIN tools # {}
    /\ calls = <<>>

\* C15: every callTool that ended has answered with a text, and when the
\* invoke of a registered tool raised, that text is "Error executing tool:
\* <description>" with the description of the exception.
C15_ExceptionsRendered ==
    last.op = "call" =>
        /\ "text" \in DOMAIN last
        /\ "fmt" \in DOMAIN last.text
        /\ (last.found /\ last.invoke.kind = "raised")
              => last.text = [fmt |-> "Error executing tool: %s",
                              exc |-> last.invoke.exc]

\* The request of a call failed in the transport, the exception left the
\* tool's invoke, and callTool answered with the text of the exception.
C15_Witness ==
    /\ last.op = "call"
    /\ last.sent
    /\ last.net \in TransportFailures
    /\ last.invoke.kind = "raised"
    /\ last.text.fmt = "Error executing tool: %s"
    /\ last.text.exc = last.invoke.exc

\* The envelope holds a decoded body: the key is there and its value is not
\* None.
DataPresent(envelope) ==
    "data" \in DOMAIN envelope /\ envelope.data # [json |-> "null"]

\* C16: the text of a returned envelope is, on success with data present (an
\* empty list, object or string, zero and false included), the message
\* followed by the data; on success without data the message alone; on
\* failure the message alone.
C16_Rendering ==
    (last.op = "call" /\ last.found /\ last.invoke.kind = "returned"
        /\ "success" \in DOMAIN last.invoke.value) =>
        LET envelope == last.invoke.value
        IN  IF envelope.success /\ DataPresent(envelope)
            THEN last.text = [fmt     |-> "%s\n\nResponse Data:\n%s",
                              message |-> envelope.message,
                              data    |-> envelope.data]
            ELSE last.text = envelope.message

\* C17: a listing holds the descriptor of every tool whose conversion does
\* not raise, and of no other: a tool whose conversion raises is left out
\* and the remaining tools are listed all the same.
C17_BrokenToolSkipped ==
    last.op = "list_tools" =>
        /\ \A n \in DOMAIN tools :
              IF n \in last.broken
              THEN \A d \in last.response : d.name # n
              ELSE \E d \in last.response :
                      /\ d.name = n
                      /\ d.description = endpoints[n].description
                      /\ Len(d.inputSchema) = Len(endpoints[n].parameters)
        /\ \A d \in last.response : d.name \in DOMAIN tools
        /\ Cardinality(last.response) = Cardinality(DOMAIN tools \ last.broken)

\* Two tools are registered, the conversion of one raised, and the listing
\* holds the other one alone.
C17_Witness ==
    /\ last.op = "list_tools"
    /\ Cardinality(DOMAIN tools) = 2
    /\ Cardinality(last.broken \cap DOMAIN tools) = 1
    /\ Cardinality(last.response) = 1
    /\ \A d \in last.response : d.name \in DOMAIN tools \ last.broken

-----------------------------------------------------------------------------
(* The registry: claim C18.                                                *)

\* C18: a change the holder makes in a returned listing (in its list, in the
\* fields, the headers or the parameters of an entry) changes neither the
\* registry nor what list() returns afterwards, and a registration or an
\* unregistration changes nothing of what the holder reads in its listing.
C18_ListingIsCopy ==
    [][/\ last'.op = "change_listing"
            => /\ endpoints' = endpoints
               /\ tools' = tools
               /\ list_endpoints(endpoints') = list_endpoints(endpoints)
       /\ last'.op \in {"add", "remove"}
            => Seen(listing', endpoints') = Seen(listing, endpoints)]_vars

\* The holder has just added a header to the entry of a registered endpoint:
\* the entry has the header and the descriptor of the registry has not.
C18_Witness ==
    /\ last.op = "change_listing"
    /\ last.part = "headers"
    /\ last.name \in DOMAIN endpoints
    /\ "X-Changed" \in DOMAIN listing.entries[last.name].headers.map
    /\ "X-Changed" \notin DOMAIN endpoints[last.name].headers.map

-----------------------------------------------------------------------------
(* The wallet: claim C19.                                                  *)

\* "amount must be greater than zero"
GreaterThanZero ==
    <<"a", "m", "o", "u", "n", "t", " ", "m", "u", "s", "t", " ", "b", "e",
      " ", "g", "r", "e", "a", "t", "e", "r", " ", "t", "h", "a", "n", " ",
      "z", "e", "r", "o">>

\* C19: get_signed_transaction called with the address of a wallet and an
\* amount that is zero or negative returns, with no RPC call made, a result
\* with success = false whose message contains "amount must be greater than
\* zero".
C19_ZeroAmountRejected ==
    (/\ last.op = "get_signed_transaction"
     /\ ~last.targetWallet.none
     /\ last.targetWallet.s # ""
     /\ last.amountAtomic.kind = "int"
     /\ last.amountAtomic.v <= 0)
       => /\ ~last.call.raised
          /\ last.call.rpc = <<>>
          /\ ~last.call.result.success
          /\ "text" \in DOMAIN last.call.result.message
          /\ Contains(last.call.result.message.text, GreaterThanZero)

-----------------------------------------------------------------------------
(* Concurrency: claim C20.                                                 *)

\* The body is one that registers on an empty registry.
Acceptable(config) ==
    add_endpoint_handler(EmptyDict, EmptyDict, config).response.success

\* C20: of two acceptable registration requests for the same name that
\* overlap in time (the second was being read when the first was served),
\* with the name free when the first was served, the first succeeds, the
\* second gets the duplicate-name failure, and the registry holds the
\* descriptor of the first with its tool.
C20_OverlappingRegistrations ==
    \A i, j \in 1..Len(requests) :
        (/\ requests[i].state = "served"
         /\ requests[j].state = "served"
         /\ j \in requests[i].reading
         /\ requests[i].free
         /\ requests[i].config.name = requests[j].config.name
         /\ Acceptable(requests[i].config)
         /\ Acceptable(requests[j].config))
           => /\ requests[i].response.success
              /\ ~requests[j].response.success
              /\ requests[j].response.message =
                    [fmt |-> "Error adding endpoint: %s",
                     exc |-> "ValueError: already exists"]
              /\ requests[i].config.name \in DOMAIN endpoints \cap DOMAIN tools
              /\ endpoints[requests[i].config.name] =
                    create_endpoint_from_config(requests[i].config).value

\* Two requests for e1 with different urls overlapped; the one that arrived
\* second was served first and succeeded, the other one was refused, and the
\* registry holds the url of the one served first.
C20_Witness ==
    /\ Len(requests) = 2
    /\ requests[1].state = "served"
    /\ requests[2].state = "served"
    /\ 1 \in requests[2].reading
    /\ requests[1].config.name = "e1"
    /\ requests[2].config.name = "e1"
    /\ requests[1].config.url # requests[2].config.url
    /\ requests[2].response.success
    /\ ~requests[1].response.success
    /\ endpoints["e1"].url = requests[2].config.url


-----------------------------------------------------------------------------
(* Invocations and the registry: claim C21.                                *)

\* The descriptor the latest successful registration of name n stored.
LatestRegistered(reqs, n) ==
    LET done == {i \in 1..Len(reqs) : /\ reqs[i].state = "served"
                                       /\ reqs[i].response.success
                                       /\ reqs[i].config.name = n}
        latest == CHOOSE i \in done : \A j \in done : reqs[j].order <= reqs[i].order
    IN  create_endpoint_from_config(reqs[latest].config).value

\* The step starts the request of an invocation.
SendStep == Len(calls') = Len(calls) + 1

\* C21: the step in which an invocation fails in the transport leaves the
\* registry and the other invocations in flight as they were, and the
\* descriptor an invocation reads is the one the registration stored: no
\* earlier invocation has written to it.
C21_InvocationsIndependent ==
    [][/\ (last'.op = "call" /\ last'.sent /\ last'.net \in TransportFailures
            /\ calls' # calls)
          => /\ endpoints' = endpoints
             /\ tools' = tools
             /\ \E i \in 1..Len(calls) : calls' = RemoveAt(calls, i)
       /\ SendStep
          => calls'[Len(calls')].endpoint
                = LatestRegistered(requests, calls'[Len(calls')].name)]_vars


-----------------------------------------------------------------------------
(* Replacing a descriptor: claim C22.                                      *)

\* The step serves the registration request i.
ServeStep(i) ==
    /\ i \in 1..Len(requests)
    /\ requests[i].state = "reading"
    /\ requests'[i].state = "served"

\* C22: an acceptable registration that comes right after the successful
\* unregistration of its name succeeds, and list() then shows for that name
\* the new descriptor and no other; every request an invocation starts is
\* built (url, method, headers, timeout, query or body) from the descriptor
\* the latest successful registration of its name stored.
C22_ReplacedByReRegistration ==
    [][/\ \A i \in 1..Len(requests) :
             (/\ ServeStep(i)
              /\ last.op = "remove"
              /\ last.response.success
              /\ last.name = requests[i].config.name
              /\ Acceptable(requests[i].config))
                => /\ requests'[i].response.success
                   /\ {d \in list_endpoints(endpoints') : d.name = last.name}
                         = {asdict(create_endpoint_from_config(requests[i].config).value)}
                   /\ last.name \in DOMAIN tools'
       /\ SendStep
             => LET c == calls'[Len(calls')]
                IN  c.request = BuildRequest(LatestRegistered(requests, c.name),
                                             c.arguments)]_vars

\* e1 was registered as a GET on "/u/{a}", unregistered, and registered again
\* as a POST on "/u"; the request in flight is the POST on "/u".
C22_Witness ==
    /\ Len(requests) = 2
    /\ requests[1].state = "served"
    /\ requests[2].state = "served"
    /\ requests[1].order = 1
    /\ requests[1].response.success
    /\ requests[2].response.success
    /\ requests[1].config = BaseConfig("e1")
    /\ requests[2].config.name = "e1"
    /\ requests[2].config.method = "POST"
    /\ Len(calls) = 1
    /\ calls[1].name = "e1"
    /\ calls[1].request.method = "POST"
    /\ calls[1].request.url = UrlPlain
    /\ calls[1].request.timeout = 5


-----------------------------------------------------------------------------
(* The descriptors the Registry holds: claims C23 and C24.                 *)

\* C23: every descriptor the Registry holds has a positive timeout.
C23_TimeoutPositive ==
    \A n \in DOMAIN endpoints : endpoints[n].timeout > 0

\* C24: every descriptor the Registry holds has pairwise distinct parameter
\* names.
C24_ParameterNamesDistinct ==
    \A n \in DOMAIN endpoints :
        LET ps == endpoints[n].parameters
        IN  \A i, j \in 1..Len(ps) : ps[i].name = ps[j].name => i = j


-----------------------------------------------------------------------------
(* The schema of a synthesized tool: claim C25.                            *)

\* The kinds of a Parameter and the kind of the schema entry of each.
ParameterKinds == {"string", "number", "boolean", "object", "array"}

SchemaKind(kind) ==
    CASE kind = "string"  -> "str"
      [] kind = "number"  -> "float"
      [] kind = "boolean" -> "bool"
      [] kind \in {"object", "array"} -> "Any"

\* The schema sig has one entry per parameter of ps, in order.
SchemaOf(sig, ps) ==
    /\ Len(sig) = Len(ps)
    /\ \A i \in 1..Len(ps) :
          /\ sig[i].name = ps[i].name
          /\ ps[i].type \in ParameterKinds => sig[i].annotation = SchemaKind(ps[i].type)
          /\ ps[i].required => ~sig[i].has_default
          /\ ~ps[i].required => sig[i].has_default /\ sig[i].default = ps[i].default

\* C25: the schema of every tool has exactly one entry per parameter of its
\* descriptor, in declaration order, of kind str for string, float for
\* number, bool for boolean and Any for object and array; a required
\* parameter has no default, an optional one has its declared default, or
\* None; and the arguments a call hands to the request builder hold, for
\* every optional parameter the caller left out, that default.
C25_ToolSchema ==
    [][/\ \A n \in DOMAIN tools' :
             /\ n \in DOMAIN endpoints'
             /\ SchemaOf(tools'[n].func.sig, endpoints'[n].parameters)
       /\ SendStep
             => LET c == calls'[Len(calls')]
                    ps == c.endpoint.parameters
                IN  /\ Len(c.arguments) = Len(ps)
                    /\ \A i \in 1..Len(ps) :
                          /\ c.arguments[i].name = ps[i].name
                          /\ (~ps[i].required /\ ps[i].name \notin DOMAIN last'.kwargs)
                                => c.arguments[i].value = ps[i].default
                          /\ ps[i].name \in DOMAIN last'.kwargs
                                => c.arguments[i].value = last'.kwargs[ps[i].name]]_vars

\* A call of e1(a: str, b: float = "7", c: bool = None) with a alone is in
\* flight: its arguments are a, b = "7" and c = None.
C25_Witness ==
    /\ last.op = "send"
    /\ last.name = "e1"
    /\ DOMAIN last.kwargs = {pa}
    /\ Len(calls) = 1
    /\ "e1" \in DOMAIN tools
    /\ Len(tools["e1"].func.sig) = 3
    /\ [i \in 1..3 |-> tools["e1"].func.sig[i].annotation] = <<"str", "float", "bool">>
    /\ calls[1].arguments = <<[name |-> pa, value |-> StrValue(<<"4", "2">>)],
                              [name |-> pb, value |-> DefaultSeven],
                              [name |-> pc, value |-> NoneValue]>>


-----------------------------------------------------------------------------
(* The order of the parameters: claim C26.                                 *)

\* The body holds every key a descriptor needs, a known method, and
\* parameters whose names are identifiers, no two of them the same.
UniqueParameters(config) ==
    LET made == create_endpoint_from_config(config)
    IN  /\ ~made.raised
        /\ \A i \in 1..Len(made.value.parameters) :
              /\ IsIdentifier(made.value.parameters[i].name)
              /\ \A j \in 1..Len(made.value.parameters) :
                    made.value.parameters[i].name = made.value.parameters[j].name
                        => i = j

\* C26: a registration whose name is not in the Registry and whose
\* parameter names are unique succeeds, whatever the order of the required
\* and optional parameters: the descriptor and the tool are both stored.
C26_AnyParameterOrder ==
    [][\A i \in 1..Len(requests) :
          (/\ ServeStep(i)
           /\ UniqueParameters(requests[i].config)
           /\ requests[i].config.name \notin DOMAIN endpoints)
             => /\ requests'[i].response.success
                /\ requests[i].config.name \in DOMAIN endpoints'
                /\ requests[i].config.name \in DOMAIN tools']_vars


-----------------------------------------------------------------------------
(* Values that hold placeholders: claim C27.                               *)

\* C27: for a url template whose braces are placeholders, the url of the
\* request is the template with the placeholder of every argument replaced,
\* in one pass, by the text of that argument, whatever the values hold (a
\* value that reads as a placeholder stays in the url as it is, so the
\* order of the arguments does not matter); and in the request of a GET or
\* DELETE an argument is missing from the query exactly when its placeholder
\* is in the template.
C27_ValuesNotPlaceholders ==
    \A i \in 1..Len(calls) :
        LET c == calls[i]
        IN  /\ TemplateWellFormed(c.endpoint.url)
                  => c.request.url = Substituted(c.endpoint.url, c.arguments)
            /\ c.endpoint.method \in {"GET", "DELETE"}
                  => \A j \in 1..Len(c.arguments) :
                        ~HasArg(c.request.params, c.arguments[j].name)
                           <=> Contains(c.endpoint.url, Placeholder(c.arguments[j].name))


-----------------------------------------------------------------------------
(* Unregistration while an invocation runs: claim C28.                     *)

\* C28: when the response of a call in flight arrives, the envelope is the
\* one the response normalizer gives for that response, the Registry is as
\* it was, and only that call ends, whether or not the name of the call is
\* still registered and whatever descriptor it has now; when the function
\* of a tool is called after the name was unregistered, the call ends with
\* the failure envelope "Endpoint '<name>' not found" and no request is
\* handed to the transport.
C28_UnregisteredInFlight ==
    [][/\ (last'.op = "call" /\ last'.sent /\ last'.net = "response" /\ calls' # calls)
            => /\ endpoints' = endpoints
               /\ tools' = tools
               /\ \E i \in InFlight(calls) :
                     /\ calls' = RemoveAt(calls, i)
                     /\ last'.name = calls[i].name
                     /\ last'.url = calls[i].request.url
                     /\ last'.invoke = [kind |-> "returned",
                                        value |-> process_response(last'.response,
                                                                   calls[i].name)]
       /\ \A i \in 1..Len(calls) :
             (/\ IsHeld(calls[i])
              /\ calls[i].name \notin DOMAIN endpoints
              /\ ~sig_bind(calls[i].tool.func.sig, calls[i].kwargs).raised
              /\ \/ calls' = RemoveAt(calls, i)
                 \/ Len(calls') = Len(calls) /\ ~IsHeld(calls'[i]))
                => /\ calls' = RemoveAt(calls, i)
                   /\ last'.op = "call"
                   /\ ~last'.sent
                   /\ last'.invoke
                        = [kind |-> "returned",
                           value |-> [success |-> FALSE,
                                      message |-> [fmt |-> "Endpoint '%s' not found",
                                                   endpoint |-> calls[i].name]]]]_vars

\* The response of a call of e1 has arrived after e1 was unregistered: the
\* envelope is the one of the response, a success.
C28_Witness ==
    /\ last.op = "call"
    /\ last.sent
    /\ last.net = "response"
    /\ last.name = "e1"
    /\ "e1" \notin DOMAIN endpoints
    /\ last.invoke.kind = "returned"
    /\ last.invoke.value.success

====
